---- MODULE Spec2Model ----
(***************************************************************************)
(* SillyTavern-Chess: the opponent move resolver (parseMove) and the       *)
(* move-request orchestrator (ChessGame.tryMoveOpponent) together with the *)
(* event handlers of ChessGame that call it.                               *)
(*                                                                         *)
(* Text is modelled as a sequence of one-character strings, so that the    *)
(* regular expressions of parseMove are computed character by character.   *)
(* The rules engine (chess.js) is an external collaborator; it is modelled *)
(* as a small deterministic two-player game with named moves.              *)
(***************************************************************************)
EXTENDS Integers, Sequences, FiniteSets, TLC

VARIABLES
    color,                \* this.color: the user's side, "white" or "black"
    game,                 \* this.game: the engine's move history
    board,                \* this.board: the position last given to the widget
    opponentStatusText,   \* this.opponentStatusText.textContent
    launched,             \* launch() has run (the board and the buttons exist)
    dragging,             \* the widget holds a piece whose onDragStart passed
    inv,                  \* the suspended tryMoveOpponent invocations, oldest first
    ret,                  \* the callback that ran in the last step and how it ended
    reply,                \* the reply text parseMove was given in the last step
    moves,                \* the `moves` list parseMove closed over
    parsed                \* what parseMove returned for (reply, moves)

vars == <<color, game, board, opponentStatusText, launched, dragging, inv, ret,
          reply, moves, parsed>>

----------------------------------------------------------------------------
(* Bounds of the model.                                                     *)

\* How many tryMoveOpponent invocations may be suspended at once.
MaxInFlight == 2

\* The resolver's inputs are concatenations of at most MaxChunks chunks.
MaxChunks == 4

----------------------------------------------------------------------------
(* Text.                                                                    *)

Files == {"a", "b", "c", "d", "e", "f", "g", "h"}
Ranks == {"1", "2", "3", "4", "5", "6", "7", "8"}
Pieces == {"N", "B", "R", "Q", "K"}
WhiteSpace == {" ", "\n", "\t"}

Suffix(s, i) == SubSeq(s, i, Len(s))

\* String.prototype.trim
RECURSIVE TrimLeft(_)
TrimLeft(s) ==
    IF s # <<>> /\ Head(s) \in WhiteSpace THEN TrimLeft(Tail(s)) ELSE s

RECURSIVE TrimRight(_)
TrimRight(s) ==
    IF s # <<>> /\ s[Len(s)] \in WhiteSpace
    THEN TrimRight(SubSeq(s, 1, Len(s) - 1))
    ELSE s

trim(s) == TrimRight(TrimLeft(s))

\* String.prototype.toLowerCase, on the letters the model's texts use
toLowerCaseChar(c) ==
    CASE c = "N" -> "n"
      [] c = "B" -> "b"
      [] c = "R" -> "r"
      [] c = "Q" -> "q"
      [] c = "K" -> "k"
      [] c = "O" -> "o"
      [] c = "E" -> "e"
      [] c = "F" -> "f"
      [] c = "I" -> "i"
      [] OTHER -> c

toLowerCase(s) == [k \in 1..Len(s) |-> toLowerCaseChar(s[k])]

\* String.prototype.includes
includes(s, t) ==
    \E k \in 1..(Len(s) - Len(t) + 1) : SubSeq(s, k, k + Len(t) - 1) = t

----------------------------------------------------------------------------
(* parseMove (the resolver).                                                *)

\* /([a-h][1-8]-[a-h][1-8])/ matches s at index k
regularAt(s, k) ==
    /\ k + 4 <= Len(s)
    /\ s[k] \in Files
    /\ s[k + 1] \in Ranks
    /\ s[k + 2] = "-"
    /\ s[k + 3] \in Files
    /\ s[k + 4] \in Ranks

\* reply.match(/([a-h][1-8]-[a-h][1-8])/g): the start indices of the matches,
\* found left to right without overlap
RECURSIVE regularMatchFrom(_, _)
regularMatchFrom(s, k) ==
    IF k + 4 > Len(s) THEN <<>>
    ELSE IF regularAt(s, k) THEN <<k>> \o regularMatchFrom(s, k + 5)
    ELSE regularMatchFrom(s, k + 1)

regularMatch(s) == regularMatchFrom(s, 1)

\* regularMatch[0].split('-')
regularResult(s) ==
    LET k == regularMatch(s)[1]
    IN  [type |-> "array", from |-> SubSeq(s, k, k + 1),
         to |-> SubSeq(s, k + 3, k + 4), san |-> <<>>]

\* ([NBRQK])?([a-h])?([1-8])?(x)?([a-h][1-8])(=[NBRQK])?(\+|#)?$ matches the
\* whole of t (t is the text from the match's start to the end of the reply)
notationTail(t) ==
    \E p \in 0..1, f \in 0..1, r \in 0..1, x \in 0..1, q \in {0, 2}, c \in 0..1 :
        /\ Len(t) = p + f + r + x + 2 + q + c
        /\ p = 1 => t[1] \in Pieces
        /\ f = 1 => t[p + 1] \in Files
        /\ r = 1 => t[p + f + 1] \in Ranks
        /\ x = 1 => t[p + f + r + 1] = "x"
        /\ t[p + f + r + x + 1] \in Files
        /\ t[p + f + r + x + 2] \in Ranks
        /\ q = 2 => /\ t[p + f + r + x + 3] = "="
                    /\ t[p + f + r + x + 4] \in Pieces
        /\ c = 1 => t[Len(t)] \in {"+", "#"}

\* ^O-O(-O)? : the castling alternative, tried at index 1 only
castleLong(s) == Len(s) >= 5 /\ SubSeq(s, 1, 5) = <<"O", "-", "O", "-", "O">>
castleShort(s) == Len(s) >= 3 /\ SubSeq(s, 1, 3) = <<"O", "-", "O">>

\* The regular expression engine tries the start indices left to right and, at
\* each index, the first alternative before the second.
RECURSIVE notationMatchFrom(_, _)
notationMatchFrom(s, k) ==
    IF k > Len(s) THEN <<>>
    ELSE IF notationTail(Suffix(s, k)) THEN <<Suffix(s, k)>>
    ELSE IF k = 1 /\ castleLong(s) THEN <<SubSeq(s, 1, 5)>>
    ELSE IF k = 1 /\ castleShort(s) THEN <<SubSeq(s, 1, 3)>>
    ELSE notationMatchFrom(s, k + 1)

\* reply.match(/...$|^O-O(-O)?/): <<>> for null, else <<notationMatch[0]>>
notationMatch(s) == notationMatchFrom(s, 1)

RECURSIVE legalScanCaseSensitive(_, _)
legalScanCaseSensitive(s, ms) ==
    IF ms = <<>> THEN <<>>
    ELSE IF includes(s, Head(ms)) THEN <<Head(ms)>>
    ELSE legalScanCaseSensitive(s, Tail(ms))

\* for (const move of moves) if (reply.toLowerCase().includes(move.toLowerCase()))
RECURSIVE legalScan(_, _)
legalScan(s, ms) ==
    IF ms = <<>> THEN <<>>
    ELSE IF includes(toLowerCase(s), toLowerCase(Head(ms))) THEN <<Head(ms)>>
    ELSE legalScan(s, Tail(ms))

Null == [type |-> "null", from |-> <<>>, to |-> <<>>, san |-> <<>>]
StringResult(t) == [type |-> "string", from |-> <<>>, to |-> <<>>, san |-> t]

parseMoveNotationFirst(r, ms) ==
    LET s == trim(r)
    IN  IF notationMatch(s) # <<>> THEN StringResult(notationMatch(s)[1])
        ELSE IF regularMatch(s) # <<>> THEN regularResult(s)
        ELSE IF legalScan(s, ms) # <<>> THEN StringResult(legalScan(s, ms)[1])
        ELSE Null

\* function parseMove(reply), with the `moves` it closes over
parseMove(r, ms) ==
    LET s == trim(r)
    IN  IF regularMatch(s) # <<>> THEN regularResult(s)
        ELSE IF notationMatch(s) # <<>> THEN StringResult(notationMatch(s)[1])
        ELSE IF legalScan(s, ms) # <<>> THEN StringResult(legalScan(s, ms)[1])
        ELSE Null

----------------------------------------------------------------------------
(* The rules engine (chess.js), as far as ChessGame uses it.  A move has its *)
(* algebraic name and its origin and destination squares; each side has two *)
(* moves and may play each of them once, so a position is the set of moves  *)
(* played and the side to move, and the game ends when the side to move has *)
(* no move left.                                                            *)

WhiteMoves ==
    << [san |-> <<"e", "4">>, from |-> <<"e", "2">>, to |-> <<"e", "4">>],
       [san |-> <<"N", "f", "3">>, from |-> <<"g", "1">>, to |-> <<"f", "3">>] >>

BlackMoves ==
    << [san |-> <<"e", "5">>, from |-> <<"e", "7">>, to |-> <<"e", "5">>],
       [san |-> <<"N", "c", "6">>, from |-> <<"b", "8">>, to |-> <<"c", "6">>] >>

\* game.turn()
turn(g) == IF Len(g) % 2 = 0 THEN "w" ELSE "b"

Played(g) == {g[n] : n \in 1..Len(g)}

\* game.moves({ verbose: true }): the legal moves of the position, in the engine's order
verboseMoves(g) ==
    LET IsFree(m) == m \notin Played(g)
    IN  SelectSeq(IF turn(g) = "w" THEN WhiteMoves ELSE BlackMoves, IsFree)

\* game.moves(): their algebraic names
legalMoves(g) == [n \in 1..Len(verboseMoves(g)) |-> verboseMoves(g)[n].san]

\* game.isGameOver()
isGameOver(g) == verboseMoves(g) = <<>>

\* game.fen()
fen(g) == [placed |-> {m.san : m \in Played(g)}, turn |-> turn(g)]

\* game.move(san): <<>> when the engine throws, else <<the game after the move>>
moveSan(g, san) ==
    LET ok == SelectSeq(verboseMoves(g), LAMBDA m : m.san = san)
    IN  IF ok = <<>> THEN <<>> ELSE <<Append(g, ok[1])>>

\* game.move({ from, to }): likewise
moveObject(g, from, to) ==
    LET ok == SelectSeq(verboseMoves(g), LAMBDA m : m.from = from /\ m.to = to)
    IN  IF ok = <<>> THEN <<>> ELSE <<Append(g, ok[1])>>

\* game.undo(): nothing to undo leaves the game as it is
undo(g) == IF g = <<>> THEN g ELSE SubSeq(g, 1, Len(g) - 1)

----------------------------------------------------------------------------
(* ChessGame.                                                               *)

isOpponentTurn(g, c) ==
    (turn(g) = "w" /\ c = "black") \/ (turn(g) = "b" /\ c = "white")

isUserTurn(g, c) ==
    (turn(g) = "w" /\ c = "white") \/ (turn(g) = "b" /\ c = "black")

\* updateStatus: the text it leaves in opponentStatusText
updateStatus(g, c) ==
    IF isGameOver(g) THEN "Game over"
    ELSE IF isOpponentTurn(g, c) THEN "Thinking..."
    ELSE IF isUserTurn(g, c) THEN "Your turn!"
    ELSE ""

maxRetries == 3

NoFen == [placed |-> {}, turn |-> "-"]

\* An invocation of tryMoveOpponent: where it is, its locals (i, fen, moves) and
\* what it has done so far (requests issued, attempts failed, moves applied).
IdleInv ==
    [pc |-> "idle", i |-> 0, fen |-> NoFen, moves |-> <<>>, prompt |-> <<>>,
     requests |-> 0, failed |-> 0, applied |-> <<>>, outcome |-> "none"]

\* The two early returns of tryMoveOpponent
PreconditionTurnOnly(g, c) == isOpponentTurn(g, c)

Precondition(g, c) == isOpponentTurn(g, c) /\ ~isGameOver(g)

\* [fen, ascii, movesString].join('\n\n'), as the parts it is built from
promptOf(f, ms) == <<f, ms>>

\* The invocation suspended in its first generateRaw call
StartedInv(g) ==
    [pc |-> "awaiting", i |-> 0, fen |-> fen(g), moves |-> legalMoves(g),
     prompt |-> promptOf(fen(g), legalMoves(g)),
     requests |-> 1, failed |-> 0, applied |-> <<>>, outcome |-> "none"]

Slots == 1..MaxInFlight

\* A handler may run only if the invocation it would start fits the bound
HasRoom(g, c, iv) == Precondition(g, c) => Len(iv) < MaxInFlight

tryMoveOpponentGuarded(g, c, iv) ==
    IF Precondition(g, c) /\ iv = <<>> THEN Append(iv, StartedInv(g)) ELSE iv

\* tryMoveOpponent() up to its first await: the invocations after the call
tryMoveOpponent(g, c, iv) ==
    IF Precondition(g, c) THEN Append(iv, StartedInv(g)) ELSE iv

\* What a callback leaves behind: its name, which suspended invocation it resumed
\* (0: none), what it returned (for a resumed invocation: how the attempt went)
\* and, for a resumed invocation, the invocation as it is now.
Ret(op, k, val, rec) == [op |-> op, k |-> k, val |-> val, inv |-> rec]

\* parseMove did not run in this step
Unparsed == [type |-> "none", from |-> <<>>, to |-> <<>>, san |-> <<>>]

NoParse ==
    /\ reply' = <<>>
    /\ moves' = <<>>
    /\ parsed' = Unparsed

----------------------------------------------------------------------------
(* The replies the text-generation collaborator gives in the game.          *)

GeneratedReplies ==
    { <<"i">>,                              \* prose without a move
      <<"e", "2", "-", "e", "4">>,          \* a coordinate pair (white's e4)
      <<"N", "c", "6">>,                    \* algebraic (black's Nc6)
      <<"e", "5", " ", "i">> }              \* a move followed by prose

----------------------------------------------------------------------------
(* tryMoveOpponent after an await.                                          *)

\* Lines 153-165 for a reply r: parse it and hand the candidate to the engine
Attempt(g, ms, r) ==
    LET p == parseMove(r, ms)
        res == IF p.type = "array" THEN moveObject(g, p.from, p.to)
               ELSE moveSan(g, p.san)
    IN  IF p.type = "null" THEN [kind |-> "unresolved", game |-> g]
        ELSE IF res = <<>> THEN [kind |-> "rejected", game |-> g]
        ELSE [kind |-> "accepted", game |-> res[1]]

\* generateRaw rejected: nothing was parsed
Failed == [kind |-> "error", game |-> <<>>]

loopContinuesOffByOne(i) == i + 1 <= maxRetries

\* for (let i = 0; i < maxRetries; i++): is there another iteration after i
loopContinues(i) == i + 1 < maxRetries

afterApplyNoReturn(cur, san) ==
    [cur EXCEPT !.applied = Append(@, san), !.i = @ + 1, !.requests = @ + 1]

\* board.position(...); updateStatus(); return -- after a move was applied
afterApply(cur, san) ==
    [cur EXCEPT !.pc = "returned", !.applied = Append(@, san),
                !.outcome = "succeeded"]

afterFailureErrorEscapes(cur, kind) ==
    IF kind = "error"
    THEN [cur EXCEPT !.pc = "threw"]
    ELSE [cur EXCEPT !.i = @ + 1, !.failed = @ + 1]

\* catch (error) { console.error(...) } and the loop's i++
afterFailure(cur, kind) == [cur EXCEPT !.i = @ + 1, !.failed = @ + 1]

\* The top of the loop body: build the prompt, call generateRaw, suspend
issueRequest(cur) ==
    [cur EXCEPT !.pc = "awaiting", !.requests = @ + 1,
                !.prompt = promptOf(cur.fen, cur.moves)]

\* moves[Math.floor(Math.random() * moves.length)]: the indices it may pick
randomIndices(ms) == 1..Len(ms)

\* The k-th suspended invocation has ended as fin
Finish(k, kind, fin) ==
    /\ inv' = SubSeq(inv, 1, k - 1) \o SubSeq(inv, k + 1, Len(inv))
    /\ ret' = Ret("resume", k, kind, fin)

FallbackNoRefresh(k, kind, cur) ==
    \E n \in randomIndices(cur.moves) :
        LET res == moveSan(game, cur.moves[n])
        IN  /\ res # <<>>
            /\ game' = res[1]
            /\ Finish(k, kind, [cur EXCEPT !.pc = "returned", !.outcome = "fallback",
                                           !.applied = Append(@, cur.moves[n])])
            /\ UNCHANGED <<board, opponentStatusText>>

\* Lines 175-180: the random move, from the list taken when the invocation began
Fallback(k, kind, cur) ==
    \E n \in randomIndices(cur.moves) :
        LET res == moveSan(game, cur.moves[n])
        IN  IF res = <<>>
            THEN /\ Finish(k, kind, [cur EXCEPT !.pc = "threw", !.outcome = "fallback"])
                 /\ UNCHANGED <<game, board, opponentStatusText>>
            ELSE /\ game' = res[1]
                 /\ board' = fen(res[1])
                 /\ opponentStatusText' = updateStatus(res[1], color)
                 /\ Finish(k, kind, [cur EXCEPT !.pc = "returned",
                                                !.outcome = "fallback",
                                                !.applied = Append(@, cur.moves[n])])

\* The k-th suspended invocation goes on after its await with the attempt's result
Settle(k, att) ==
    LET cur == inv[k]
    IN  IF att.kind = "accepted"
        THEN /\ game' = att.game
             /\ board' = fen(att.game)
             /\ opponentStatusText' = updateStatus(att.game, color)
             /\ Finish(k, att.kind, afterApply(cur, att.game[Len(att.game)].san))
        ELSE IF loopContinues(cur.i)
        THEN /\ inv' = [inv EXCEPT ![k] = issueRequest(afterFailure(cur, att.kind))]
             /\ ret' = Ret("resume", k, att.kind, inv'[k])
             /\ UNCHANGED <<game, board, opponentStatusText>>
        ELSE Fallback(k, att.kind, afterFailure(cur, att.kind))

\* generateRaw resolves with the text r
generateRawResolves(k, r) ==
    /\ k <= Len(inv)
    /\ reply' = r
    /\ moves' = inv[k].moves
    /\ parsed' = parseMove(r, inv[k].moves)
    /\ Settle(k, Attempt(game, inv[k].moves, r))
    /\ UNCHANGED <<color, launched, dragging>>

\* generateRaw rejects
generateRawRejects(k) ==
    /\ k <= Len(inv)
    /\ Settle(k, Failed)
    /\ NoParse
    /\ UNCHANGED <<color, launched, dragging>>

\* The calls made after game.move in the try block, either of which may raise
RefreshCalls == {"board.position", "updateStatus"}

\* generateRaw resolves with a text r whose candidate the engine accepts, and the
\* call `at` made after game.move raises: the catch block takes the error for a
\* failed attempt, with the move already in the game
generateRawResolvesRefreshFails(k, r, at) ==
    /\ k <= Len(inv)
    /\ Attempt(game, inv[k].moves, r).kind = "accepted"
    /\ LET g2 == Attempt(game, inv[k].moves, r).game
           b2 == IF at = "board.position" THEN board ELSE fen(g2)
           cur == afterFailure([inv[k] EXCEPT !.applied = Append(@, g2[Len(g2)].san)],
                               "refresh")
       IN  IF loopContinues(inv[k].i)
           THEN /\ game' = g2
                /\ board' = b2
                /\ inv' = [inv EXCEPT ![k] = issueRequest(cur)]
                /\ ret' = Ret("resume", k, "refresh", inv'[k])
                /\ UNCHANGED opponentStatusText
           ELSE \E n \in randomIndices(cur.moves) :
                  LET res == moveSan(g2, cur.moves[n])
                  IN  IF res = <<>>
                      THEN /\ game' = g2
                           /\ board' = b2
                           /\ Finish(k, "refresh", [cur EXCEPT !.pc = "threw",
                                                                !.outcome = "fallback"])
                           /\ UNCHANGED opponentStatusText
                      ELSE /\ game' = res[1]
                           /\ board' = fen(res[1])
                           /\ opponentStatusText' = updateStatus(res[1], color)
                           /\ Finish(k, "refresh",
                                     [cur EXCEPT !.pc = "returned", !.outcome = "fallback",
                                                 !.applied = Append(@, cur.moves[n])])
    /\ reply' = r
    /\ moves' = inv[k].moves
    /\ parsed' = parseMove(r, inv[k].moves)
    /\ UNCHANGED <<color, launched, dragging>>

----------------------------------------------------------------------------
(* The event handlers.                                                      *)

launch ==
    /\ ~launched
    /\ HasRoom(game, color, inv)
    /\ launched' = TRUE
    /\ board' = fen(game)
    /\ opponentStatusText' = updateStatus(game, color)
    /\ inv' = tryMoveOpponent(game, color, inv)
    /\ ret' = Ret("launch", 0, "undefined", IdleInv)
    /\ NoParse
    /\ UNCHANGED <<color, game, dragging>>

\* The widget starts a drag unless onDragStart returns false
onDragStart ==
    /\ launched
    /\ ~dragging
    /\ IF isGameOver(game) \/ isOpponentTurn(game, color)
       THEN /\ ret' = Ret("onDragStart", 0, "false", IdleInv)
            /\ UNCHANGED dragging
       ELSE /\ ret' = Ret("onDragStart", 0, "undefined", IdleInv)
            /\ dragging' = TRUE
    /\ NoParse
    /\ UNCHANGED <<color, game, board, opponentStatusText, launched, inv>>

\* The squares a piece may be dragged between
DropInputs ==
    {[from |-> m.from, to |-> m.to] :
        m \in {WhiteMoves[n] : n \in 1..Len(WhiteMoves)}
              \cup {BlackMoves[n] : n \in 1..Len(BlackMoves)}}

onDropSnapbackAlways(source, target) ==
    LET res == moveObject(game, source, target)
    IN  /\ dragging
        /\ dragging' = FALSE
        /\ IF res = <<>>
           THEN UNCHANGED <<game, board, opponentStatusText, inv>>
           ELSE /\ HasRoom(res[1], color, inv)
                /\ game' = res[1]
                /\ board' = fen(res[1])
                /\ opponentStatusText' = updateStatus(res[1], color)
                /\ inv' = tryMoveOpponent(res[1], color, inv)
        /\ ret' = Ret("onDrop", 0, "snapback", IdleInv)
        /\ NoParse
        /\ UNCHANGED <<color, launched>>

\* The widget ends the drag it holds by calling onDrop
onDrop(source, target) ==
    LET res == moveObject(game, source, target)
    IN  /\ dragging
        /\ dragging' = FALSE
        /\ IF res = <<>>
           THEN /\ ret' = Ret("onDrop", 0, "snapback", IdleInv)
                /\ UNCHANGED <<game, board, opponentStatusText, inv>>
           ELSE /\ HasRoom(res[1], color, inv)
                /\ game' = res[1]
                /\ board' = fen(res[1])
                /\ opponentStatusText' = updateStatus(res[1], color)
                /\ inv' = tryMoveOpponent(res[1], color, inv)
                /\ ret' = Ret("onDrop", 0, "undefined", IdleInv)
        /\ NoParse
        /\ UNCHANGED <<color, launched>>

\* The click handler of the undo button
undoClick ==
    LET g2 == undo(undo(game))
    IN  /\ launched
        /\ IF isOpponentTurn(game, color)
           THEN /\ ret' = Ret("undo", 0, "return", IdleInv)
                /\ UNCHANGED <<game, board, opponentStatusText, inv>>
           ELSE /\ HasRoom(g2, color, inv)
                /\ game' = g2
                /\ board' = fen(g2)
                /\ opponentStatusText' = updateStatus(g2, color)
                /\ inv' = tryMoveOpponent(g2, color, inv)
                /\ ret' = Ret("undo", 0, "undefined", IdleInv)
        /\ NoParse
        /\ UNCHANGED <<color, launched, dragging>>

\* The click handler of the end-game button: endGame() rewrites the chat message
\* and asks for a comment; it leaves the game, the widget and the handlers alone
endGameClick ==
    /\ launched
    /\ ret' = Ret("endGame", 0, "promise", IdleInv)
    /\ NoParse
    /\ UNCHANGED <<color, game, board, opponentStatusText, launched, dragging, inv>>

\* tryMoveOpponent called by some other caller than the handlers above
tryMoveOpponentCall ==
    /\ launched
    /\ HasRoom(game, color, inv)
    /\ inv' = tryMoveOpponent(game, color, inv)
    /\ ret' = Ret("tryMoveOpponent", 0, "promise", IdleInv)
    /\ NoParse
    /\ UNCHANGED <<color, game, board, opponentStatusText, launched, dragging>>

----------------------------------------------------------------------------
(* The game as its user drives it.                                          *)

Init ==
    /\ color \in {"white", "black"}
    /\ game = <<>>
    /\ board = NoFen
    /\ opponentStatusText = ""
    /\ launched = FALSE
    /\ dragging = FALSE
    /\ inv = <<>>
    /\ ret = Ret("constructor", 0, "undefined", IdleInv)
    /\ reply = <<>>
    /\ moves = <<>>
    /\ parsed = Unparsed

Next ==
    \/ launch
    \/ onDragStart
    \/ \E d \in DropInputs : onDrop(d.from, d.to)
    \/ undoClick
    \/ endGameClick
    \/ \E k \in Slots, r \in GeneratedReplies : generateRawResolves(k, r)
    \/ \E k \in Slots : generateRawRejects(k)

Spec == Init /\ [][Next]_vars

\* Every generation request is answered in the end
FairSpec ==
    /\ Spec
    /\ \A k \in Slots :
        WF_vars(generateRawRejects(k)
                \/ \E r \in GeneratedReplies : generateRawResolves(k, r))

\* The game against a collaborator whose every reply is prose without a move
NextGarbage ==
    \/ launch
    \/ onDragStart
    \/ \E d \in DropInputs : onDrop(d.from, d.to)
    \/ undoClick
    \/ endGameClick
    \/ \E k \in Slots : generateRawResolves(k, <<"i">>)

SpecGarbage == Init /\ [][NextGarbage]_vars

\* The game played by drops alone (no button is pressed), with a widget whose
\* refresh may raise
NextRefreshFails ==
    \/ launch
    \/ onDragStart
    \/ \E d \in DropInputs : onDrop(d.from, d.to)
    \/ \E k \in Slots, r \in GeneratedReplies : generateRawResolves(k, r)
    \/ \E k \in Slots : generateRawRejects(k)
    \/ \E k \in Slots, r \in GeneratedReplies, at \in RefreshCalls :
          generateRawResolvesRefreshFails(k, r, at)

SpecRefreshFails == Init /\ [][NextRefreshFails]_vars

\* The game with tryMoveOpponent open to other callers, against the collaborator
\* whose replies hold no move (what the replies are has no part in the
\* precondition check)
NextApi == NextGarbage \/ tryMoveOpponentCall

SpecApi == Init /\ [][NextApi]_vars

----------------------------------------------------------------------------
(* The resolver on its own: parseMove applied to bounded texts.             *)

Chunks ==
    { <<"e", "2">>, <<"e", "4">>, <<"-">>, <<"N">>, <<"x">>, <<"=", "Q">>,
      <<"+">>, <<" ">>, <<"O", "-", "O">>, <<"-", "O">>, <<"i">>, <<"n">> }

RECURSIVE Concat(_)
Concat(cs) == IF cs = <<>> THEN <<>> ELSE Head(cs) \o Concat(Tail(cs))

ReplyInputs == {Concat(cs) : cs \in UNION {[1..n -> Chunks] : n \in 0..MaxChunks}}

\* The lists parseMove closes over: none, and one whose first entry contains its
\* second
MovesInputs ==
    { <<>>, << <<"N", "e", "2">>, <<"e", "2">>, <<"e", "4">> >> }

Pending == [type |-> "pending", from |-> <<>>, to |-> <<>>, san |-> <<>>]

InitResolve ==
    /\ color = "white"
    /\ game = <<>>
    /\ board = NoFen
    /\ opponentStatusText = ""
    /\ launched = FALSE
    /\ dragging = FALSE
    /\ inv = <<>>
    /\ ret = Ret("constructor", 0, "undefined", IdleInv)
    /\ reply \in ReplyInputs
    /\ moves \in MovesInputs
    /\ parsed = Pending

Resolve ==
    /\ parsed = Pending
    /\ parsed' = parseMove(reply, moves)
    /\ UNCHANGED <<color, game, board, opponentStatusText, launched, dragging,
                   inv, ret, reply, moves>>

SpecResolve == InitResolve /\ [][Resolve]_vars

----------------------------------------------------------------------------
(* Properties.                                                              *)

\* The resumed invocation of the last step, if it ended in that step
Ended == ret.op = "resume" /\ ret.inv.pc # "awaiting"

\* The step resumes the k-th suspended invocation
Resumes(k) == k <= Len(inv) /\ ret'.op = "resume" /\ ret'.k = k

\* The engine accepts the candidate c in the position g, and the game after it
Accepts(g, c) ==
    \/ c.type = "array" /\ moveObject(g, c.from, c.to) # <<>>
    \/ c.type = "string" /\ moveSan(g, c.san) # <<>>

After(g, c) ==
    IF c.type = "array" THEN moveObject(g, c.from, c.to)[1] ELSE moveSan(g, c.san)[1]

\* C1: against a collaborator whose replies never parse, an invocation that has
\* used up its 3 attempts ends by returning (no exception escapes), has applied
\* exactly one move, a member of its legal move list, and leaves the other side
\* to move than the one that was to move when it began.
C1_ExhaustedRetriesApplyOneLegalMove ==
    (Ended /\ ret.inv.failed = 3) =>
        /\ ret.inv.pc = "returned"
        /\ Len(ret.inv.applied) = 1
        /\ \E n \in 1..Len(ret.inv.moves) : ret.inv.moves[n] = ret.inv.applied[1]
        /\ turn(game) # ret.inv.fen.turn

\* C2: every invocation that passed the precondition check ends, and it ends by
\* returning with one move applied and the user to move.
C2_EveryInvocationEndsWithMoveApplied ==
    /\ (Len(inv) >= 1) ~> Ended
    /\ [](Ended => /\ ret.inv.pc = "returned"
                   /\ Len(ret.inv.applied) = 1
                   /\ isUserTurn(game, color))

\* C3: a handler's call of tryMoveOpponent when it is not the opponent's turn or
\* the game is over starts nothing and issues no request; the game, the widget
\* and the status text are what the handler itself left before the call.
C3_CallOutsideOpponentTurnIsNoOp ==
    [][(/\ ret'.op \in {"launch", "onDrop", "undo"}
        /\ ret'.val = "undefined"
        /\ ~(isOpponentTurn(game', color) /\ ~isGameOver(game')))
       => /\ inv' = inv
          /\ board' = fen(game')
          /\ opponentStatusText' = updateStatus(game', color)
          /\ \/ ret'.op = "launch" /\ game' = game
             \/ ret'.op = "undo" /\ game' = undo(undo(game))
             \/ /\ ret'.op = "onDrop"
                /\ \E d \in DropInputs : <<game'>> = moveObject(game, d.from, d.to)]_vars

C3_Witness ==
    /\ ret.op = "onDrop"
    /\ ret.val = "undefined"
    /\ isOpponentTurn(game, color)
    /\ isGameOver(game)
    /\ inv = <<>>

\* C4: an invocation issues at most 3 requests; while it is suspended it has issued
\* one request more than it has failed attempts and has applied nothing; the
\* fallback comes only with exactly 3 failed attempts and 3 requests; a success
\* comes with fewer than 3 failed attempts and is never joined by the fallback.
InvocationBounded(rec) ==
    /\ rec.requests <= 3
    /\ rec.pc = "awaiting" =>
        /\ rec.requests = rec.failed + 1
        /\ rec.applied = <<>>
        /\ rec.outcome = "none"
    /\ rec.outcome = "fallback" =>
        /\ rec.failed = 3
        /\ rec.requests = 3
        /\ rec.pc \in {"returned", "threw"}
        /\ Len(rec.applied) <= 1
    /\ rec.outcome = "succeeded" =>
        /\ rec.pc = "returned"
        /\ rec.failed < 3
        /\ rec.requests = rec.failed + 1
        /\ Len(rec.applied) = 1

C4_BoundedRetryStateMachine ==
    /\ \A k \in 1..Len(inv) : InvocationBounded(inv[k])
    /\ ret.op = "resume" => InvocationBounded(ret.inv)

C4_Witness ==
    /\ Ended
    /\ ret.inv.outcome = "fallback"
    /\ ret.inv.pc = "returned"
    /\ ret.inv.requests = 3

\* C5: when the reply of an attempt resolves to a candidate that the engine accepts,
\* the step applies exactly that move, ends the invocation without another request
\* and without the fallback, and gives the widget the resulting position.
C5_AcceptedCandidateEndsInvocation ==
    [][\A k \in Slots :
        (Resumes(k) /\ Accepts(game, parsed'))
        => /\ game' = After(game, parsed')
           /\ board' = fen(game')
           /\ ret'.inv.pc = "returned"
           /\ ret'.inv.outcome = "succeeded"
           /\ ret'.inv.requests = inv[k].requests
           /\ ret'.inv.applied = <<game'[Len(game')].san>>
           /\ Len(inv') = Len(inv) - 1]_vars

C5_Witness ==
    /\ Ended
    /\ ret.val = "accepted"
    /\ ret.inv.requests = 1
    /\ parsed.type = "string"
    /\ board = fen(game)

\* C6: a failed attempt -- the generation call fails, the reply does not resolve,
\* or the engine rejects the candidate -- counts as exactly one failed attempt
\* and does not end the invocation by an exception of its own; before the third
\* failure it leaves the game and the widget alone and is followed by the next
\* request, and at the third it is followed by the fallback.
AttemptFails ==
    \/ parsed'.type = "none"
    \/ parsed'.type = "null"
    \/ parsed'.type \in {"array", "string"} /\ ~Accepts(game, parsed')

C6_FailuresHandledAlike ==
    [][\A k \in Slots :
        (Resumes(k) /\ AttemptFails)
        => /\ ret'.inv.failed = inv[k].failed + 1
           /\ IF ret'.inv.failed < 3
              THEN /\ ret'.inv.pc = "awaiting"
                   /\ ret'.inv.requests = inv[k].requests + 1
                   /\ inv' = [inv EXCEPT ![k] = ret'.inv]
                   /\ game' = game
                   /\ board' = board
              ELSE /\ ret'.inv.outcome = "fallback"
                   /\ ret'.inv.requests = inv[k].requests]_vars

C6_Witness ==
    /\ ret.op = "resume"
    /\ ret.val = "rejected"
    /\ ret.inv.pc = "awaiting"
    /\ ret.inv.failed = 2

\* C7: with tryMoveOpponent called by the handlers only, at most one invocation is
\* suspended at any time.
C7_AtMostOneInvocationInFlight == Len(inv) <= 1

\* C8: whenever an invocation is resumed, the move list it gives the resolver and
\* draws the fallback move from is the engine's legal move list of the position
\* at that time, and so is the list in the prompt of the request it issues next.
C8_MoveListIsCurrent ==
    [][\A k \in Slots :
        Resumes(k)
        => /\ inv[k].moves = legalMoves(game)
           /\ ret'.inv.pc = "awaiting" => ret'.inv.prompt[2] = legalMoves(game')]_vars

----------------------------------------------------------------------------
(* Properties of the resolver.                                              *)

\* A coordinate pair <file><rank>-<file><rank> stands at index n of the text s
PairAt(s, n) ==
    /\ n >= 1
    /\ n + 4 <= Len(s)
    /\ s[n] \in Files /\ s[n + 1] \in Ranks
    /\ s[n + 2] = "-"
    /\ s[n + 3] \in Files /\ s[n + 4] \in Ranks

HasPair(s) == \E n \in 1..Len(s) : PairAt(s, n)

\* C9: a reply that holds a coordinate pair resolves to its first pair, split at
\* the hyphen, whatever stands around it and whatever the legal move list is.
C9_FirstCoordinatePairWins ==
    parsed # Pending =>
        \A n \in 1..Len(reply) :
            (PairAt(reply, n) /\ \A j \in 1..(n - 1) : ~PairAt(reply, j))
            => parsed = [type |-> "array", from |-> SubSeq(reply, n, n + 1),
                         to |-> SubSeq(reply, n + 3, n + 4), san |-> <<>>]

C9_Witness ==
    /\ parsed.type = "array"
    /\ reply = <<"N", "e", "2", "-", "e", "4">>
    /\ moves = <<>>

\* The text after the last white space of s
RECURSIVE TrailingToken(_)
TrailingToken(s) ==
    IF s = <<>> \/ s[Len(s)] \in WhiteSpace THEN <<>>
    ELSE Append(TrailingToken(SubSeq(s, 1, Len(s) - 1)), s[Len(s)])

\* t without its last character if that is one of S
DropLast(t, S) ==
    IF t # <<>> /\ t[Len(t)] \in S THEN SubSeq(t, 1, Len(t) - 1) ELSE t

\* t without a promotion suffix at its end
DropPromotion(t) ==
    IF Len(t) >= 2 /\ t[Len(t) - 1] = "=" /\ t[Len(t)] \in Pieces
    THEN SubSeq(t, 1, Len(t) - 2)
    ELSE t

\* The standard algebraic move grammar, read from the end of the token: a check
\* or mate mark, a promotion suffix, the destination square, and before it a
\* capture mark, a rank, a file and a piece letter, each of them optional but
\* the square.
Algebraic(t) ==
    LET u == DropPromotion(DropLast(t, {"+", "#"}))
        v == SubSeq(u, 1, Len(u) - 2)
    IN  /\ Len(u) >= 2
        /\ u[Len(u) - 1] \in Files
        /\ u[Len(u)] \in Ranks
        /\ DropLast(DropLast(DropLast(DropLast(v, {"x"}), Ranks), Files), Pieces) = <<>>

\* C10: a reply without a coordinate pair whose trailing token is an algebraic move
\* resolves to exactly that token.
C10_TrailingAlgebraicTokenReturned ==
    (parsed # Pending /\ ~HasPair(reply) /\ Algebraic(TrailingToken(trim(reply))))
    => parsed = [type |-> "string", from |-> <<>>, to |-> <<>>,
                 san |-> TrailingToken(trim(reply))]

\* t is in s, letter case set aside
ContainsIgnoringCase(s, t) ==
    \E k \in 1..(Len(s) - Len(t) + 1) :
        \A j \in 1..Len(t) : toLowerCaseChar(s[k + j - 1]) = toLowerCaseChar(t[j])

EndsAlgebraic(s) ==
    LET u == DropPromotion(DropLast(s, {"+", "#"}))
    IN  /\ Len(u) >= 2
        /\ u[Len(u) - 1] \in Files
        /\ u[Len(u)] \in Ranks

\* s ends with t
EndsWith(s, t) == Len(s) >= Len(t) /\ SubSeq(s, Len(s) - Len(t) + 1, Len(s)) = t

\* s ends with a castling token
EndsCastle(s) == EndsWith(s, <<"O", "-", "O">>)

\* C12: a reply is unresolved exactly when it holds no coordinate pair, does not
\* end with an algebraic move or a castling token, and contains no entry of the
\* legal move list; so the empty reply and a reply of white space are unresolved
\* for every list.
C12_UnresolvedIffNoRuleMatches ==
    parsed # Pending =>
        (parsed.type = "null"
         <=> /\ ~HasPair(reply)
             /\ ~EndsAlgebraic(trim(reply))
             /\ ~EndsCastle(trim(reply))
             /\ \A n \in 1..Len(moves) : ~ContainsIgnoringCase(reply, moves[n]))

\* C13: a reply without a coordinate pair that ends with O-O or O-O-O resolves to
\* exactly that castling token, whatever stands before it.
C13_CastlingAnchoredAtEnd ==
    (parsed # Pending /\ ~HasPair(reply) /\ EndsCastle(trim(reply)))
    => /\ parsed.type = "string"
       /\ parsed.san = IF EndsWith(trim(reply), <<"O", "-", "O", "-", "O">>)
                        THEN <<"O", "-", "O", "-", "O">>
                        ELSE <<"O", "-", "O">>

----------------------------------------------------------------------------
(* Further properties of the game.                                          *)

\* C14: a call of tryMoveOpponent made while an invocation is suspended in its
\* request, in the position that invocation began in, passes the precondition
\* check as well: it starts a second invocation that issues its own request, and
\* the suspended ones stay as they are.
C14_SecondCallAlsoStarts ==
    [][(/\ ret'.op = "tryMoveOpponent"
        /\ \E k \in 1..Len(inv) : inv[k].pc = "awaiting" /\ inv[k].fen = fen(game))
       => /\ Len(inv') = Len(inv) + 1
          /\ \A k \in 1..Len(inv) : inv'[k] = inv[k]
          /\ inv'[Len(inv')].pc = "awaiting"
          /\ inv'[Len(inv')].requests = 1
          /\ game' = game]_vars

C14_Witness ==
    /\ ret.op = "tryMoveOpponent"
    /\ Len(inv) = 2
    /\ inv[1].pc = "awaiting" /\ inv[2].pc = "awaiting"
    /\ inv[1].fen = inv[2].fen
    /\ inv[1].requests = 2 /\ inv[2].requests = 1

\* C15: an invocation applies at most one move, also when the widget refresh or
\* the status update raises after a move was applied in an attempt: an
\* invocation that has applied a move is not suspended in another request and
\* has applied no second move.
AppliesAtMostOnce(rec) ==
    /\ Len(rec.applied) <= 1
    /\ rec.pc = "awaiting" => rec.applied = <<>>

C15_AtMostOneMovePerInvocation ==
    /\ \A k \in 1..Len(inv) : AppliesAtMostOnce(inv[k])
    /\ ret.op = "resume" => AppliesAtMostOnce(ret.inv)

\* C16: every move an invocation applies, parsed or fallback, is applied in a
\* position that has the opponent's side to move.
C16_MovesAppliedOnOpponentTurn ==
    [][\A k \in Slots :
        (Resumes(k) /\ game' # game) => isOpponentTurn(game, color)]_vars

\* C17: in a launched game that is not over and has the opponent's side to move,
\* an invocation is in flight.
C17_NoStuckOpponentTurn ==
    (launched /\ ~isGameOver(game) /\ isOpponentTurn(game, color)) => Len(inv) >= 1

\* C18: in a launched game, between handlers, the position last given to the
\* widget is the engine's position.
C18_WidgetShowsEnginePosition == launched => board = fen(game)

C18_Witness ==
    /\ Ended
    /\ ret.inv.outcome = "fallback"
    /\ ret.inv.pc = "returned"
    /\ Len(game) >= 2
    /\ board = fen(game)

\* C19: onDrop returns 'snapback' exactly when the engine rejected the drop; then
\* the game, the widget and the invocations are as before; otherwise the game is
\* the one after an accepted drop, the widget has its position, and
\* tryMoveOpponent was called once: one invocation more is in flight if the
\* opponent is to move in a game that is not over, and none more if not.
C19_SnapbackIffRejected ==
    [][ret'.op = "onDrop"
       => IF game' = game
          THEN /\ ret'.val = "snapback"
               /\ board' = board
               /\ inv' = inv
          ELSE /\ ret'.val # "snapback"
               /\ \E d \in DropInputs : moveObject(game, d.from, d.to) = <<game'>>
               /\ board' = fen(game')
               /\ SubSeq(inv', 1, Len(inv)) = inv
               /\ Len(inv') = IF isOpponentTurn(game', color) /\ ~isGameOver(game')
                               THEN Len(inv) + 1
                               ELSE Len(inv)]_vars

C19_Witness ==
    /\ ret.op = "onDrop"
    /\ ret.val = "undefined"
    /\ Len(game) = 3
    /\ Len(inv) = 1
    /\ inv[1].requests = 1

\* C20: the undo handler changes nothing when the opponent's side is to move, and
\* so nothing while an invocation is in flight: the game, the widget and the
\* invocations are as before.
C20_UndoIsNoOpOnOpponentTurn ==
    [][(ret'.op = "undo" /\ (isOpponentTurn(game, color) \/ Len(inv) >= 1))
       => /\ game' = game
          /\ board' = board
          /\ inv' = inv]_vars

====
